---- MODULE Spec2Model ----
(***************************************************************************)
(* Model of evolutionary_robots/neural_networks/ann.py:                    *)
(* ArtificialNeuralNetwork builds a layer map, the reverse connection      *)
(* lists and a levelled TensorFlow graph from a declarative layer list     *)
(* (_construct_layers, _construct_graph) and evaluates that graph once per *)
(* call of forward_propagate.                                              *)
(*                                                                         *)
(* Model of evolutionary_robots/neural_networks/layers.py: the layer       *)
(* classes used on their own (LayerSpec), and of                           *)
(* exercise_1/interfaces/infrared.py (ListenerSpec).                       *)
(*                                                                         *)
(* Abstractions: numbers are integers (numpy float64 in the code), the     *)
(* random initial weights of a layer are one value drawn from RandValues,  *)
(* a Python dict is a function whose DOMAIN is its key set, and dicts      *)
(* iterate in insertion order.                                             *)
(***************************************************************************)
EXTENDS Integers, Sequences, FiniteSets, TLC

(***************************************************************************)
(* Bounds of the model.                                                    *)
(***************************************************************************)
\* calls of forward_propagate explored per network
MaxTicks == 2
\* length of error_queue beyond which the leveling loop is not followed further
MaxQueue == 4
\* declared connections per network
MaxEdges == 3

(***************************************************************************)
(* Inputs: the layer lists handed to the constructor.                      *)
(***************************************************************************)
Declared == {"L1", "L2", "L3"}
Hardware == {"H1"}
Targets == Declared \cup Hardware
Kinds == {"STATIC", "DYNAMIC", "CTRNN", "RBF"}

\* layer[1] and layer[4] of the three declared layers
SizeOf == [L1 |-> 1, L2 |-> 2, L3 |-> 1]
SensorOf == [L1 |-> "S1", L2 |-> "", L3 |-> "L3"]

RECURSIVE SeqSum(_)
SeqSum(s) == IF s = <<>> THEN 0 ELSE Head(s) + SeqSum(Tail(s))

Range(s) == {s[i] : i \in DOMAIN s}

Zeros(n) == [i \in 1..n |-> 0]
Fill(n, v) == [i \in 1..n |-> v]

\* layer[5] with layer[6]: an ordered output list of at most two targets and
\* the subset of it declared delayed (at most one target per layer)
OutputLists == {<<>>} \cup {<<t>> : t \in Targets} \cup {<<t, u>> : t, u \in Targets}
OutputChoices ==
    {<<o, {}>> : o \in OutputLists} \cup
    {c \in {<<o, {t}>> : o \in OutputLists, t \in Targets} : c[2] \subseteq Range(c[1])}

LayerTuple(n, kind, c) ==
    [name |-> n, size |-> SizeOf[n], kind |-> kind, sensor |-> SensorOf[n],
     outputs |-> c[1], delayed |-> c[2]]

\* the layer lists explored: L1 and L2 are STATIC, L3 is of any kind
Networks ==
    {<<LayerTuple("L1", "STATIC", x[1]), LayerTuple("L2", "STATIC", x[2]), LayerTuple("L3", x[4], x[3])>> :
        x \in {y \in OutputChoices \X OutputChoices \X OutputChoices \X Kinds :
                /\ Len(y[1][1]) + Len(y[2][1]) + Len(y[3][1]) <= MaxEdges
                /\ Cardinality(y[1][2]) + Cardinality(y[2][2]) + Cardinality(y[3][2]) <= 1}}

\* the sensor dictionaries handed to forward_propagate: one keyed by a sensor
\* tag, one keyed by layer names
InputDicts ==
    {[k \in {"S1"} |-> Fill(SizeOf["L1"], 5)],
     [k \in {"L1", "L2"} |-> Fill(SizeOf[k], 7)]}

\* values np.random.rand gives every weight and bias entry of a new layer
RandValues == {1}
\* the value np.random.rand stands for in the second network, which saves the
\* file load_weights_from_file reads
TwinRand == {2}

(***************************************************************************)
(* Python dicts.                                                           *)
(***************************************************************************)
EmptyDict == [k \in {} |-> 0]
Put(d, k, v) == [x \in (DOMAIN d) \cup {k} |-> IF x = k THEN v ELSE d[x]]

VARIABLES
    pc,                 \* position of the caller: constructor, leveling loop, tick
    layer_vector,       \* self._order_of_execution
    input_connections,  \* self.__input_connections
    output_connections, \* self.__output_connections
    neuron_map,         \* self.__neuron_map
    layer_map,          \* self.__layer_map
    input_layers,       \* self.__input_layers
    output_layers,      \* self.__output_layers
    level_vector,       \* self.__level_vector
    state,              \* self.__state
    build,              \* locals of _construct_graph with the TensorFlow graph
    tick,               \* locals of forward_propagate with the session's variables
    twin,               \* a second network built from the same layer list
    unit,               \* one layer object of layers.py, used on its own
    call,               \* the last method call made on unit and how it ended
    listener            \* a ListenerInfrared with the threads that use it

vars == <<pc, layer_vector, input_connections, output_connections, neuron_map,
          layer_map, input_layers, output_layers, level_vector, state, build, tick,
          twin, unit, call, listener>>

\* what the methods of ArtificialNeuralNetwork leave alone
beside == <<unit, call, listener>>

topology == <<layer_vector, input_connections, output_connections, neuron_map,
              layer_map, input_layers, output_layers, level_vector>>

NumberOfLayers == Len(layer_vector)

(***************************************************************************)
(* __init__ (ann.py 95-116): the attributes before the two construction    *)
(* calls.                                                                   *)
(***************************************************************************)
NoBuild ==
    [current_level |-> 0, error_queue |-> <<>>, layers_generated |-> 0,
     layers_done |-> EmptyDict, output_matrix |-> EmptyDict, sensor_inputs |-> EmptyDict,
     ops |-> <<>>, placeholders |-> 0, passes |-> 0, idle_passes |-> 0,
     last_pass |-> "none", error |-> "none"]

NoTick ==
    [count |-> 0, index |-> 0, input_dict |-> EmptyDict, sensor_input |-> EmptyDict,
     state_matrix |-> EmptyDict, output |-> EmptyDict, inputs |-> EmptyDict,
     calls |-> EmptyDict, output_dict |-> EmptyDict, result |-> "none",
     committed |-> 0, recorded |-> EmptyDict]

\* no layer object, no call and no listener
NoUnit == [kind |-> "none"]
NoCall == [method |-> "none", result |-> "none"]
NoListener == [data |-> "none"]
\* the second network before its construction
NoTwin == [layer_map |-> EmptyDict, state |-> EmptyDict, output_dict |-> EmptyDict,
           result |-> "none", same |-> TRUE]

Init ==
    /\ pc = "construct_layers"
    /\ layer_vector \in Networks
    /\ input_connections = EmptyDict
    /\ output_connections = EmptyDict
    /\ neuron_map = EmptyDict
    /\ layer_map = EmptyDict
    /\ input_layers = <<>>
    /\ output_layers = <<>>
    /\ level_vector = << <<>> >>
    /\ state = [n \in {layer_vector[i].name : i \in DOMAIN layer_vector} |->
                    Zeros(layer_vector[CHOOSE i \in DOMAIN layer_vector : layer_vector[i].name = n].size)]
    /\ build = NoBuild
    /\ tick = NoTick
    /\ twin = NoTwin
    /\ unit = NoUnit
    /\ call = NoCall
    /\ listener = NoListener

(***************************************************************************)
(* _construct_layers (ann.py 148-227).                                     *)
(***************************************************************************)
\* an inversion that puts the newest tuple in front of the list of its target
AppendConnectionFront(ic, target, layer_tuple) ==
    IF target \in DOMAIN ic.map
        THEN [ic EXCEPT !.map[target] = <<layer_tuple>> \o @]
        ELSE [keys |-> Append(ic.keys, target), map |-> Put(ic.map, target, <<layer_tuple>>)]

\* 166-170: one (source, delayed) tuple appended to the list of its target;
\* keys records the order in which the dict got its keys
AppendConnection(ic, target, layer_tuple) ==
    IF target \in DOMAIN ic.map
        THEN [ic EXCEPT !.map[target] = Append(@, layer_tuple)]
        ELSE [keys |-> Append(ic.keys, target), map |-> Put(ic.map, target, <<layer_tuple>>)]

\* 163-170: the inner loop over layer[5], from its i-th element
RECURSIVE InvertOutputs(_, _, _)
InvertOutputs(layer, i, ic) ==
    IF i > Len(layer.outputs) THEN ic
    ELSE InvertOutputs(layer, i + 1,
            AppendConnection(ic, layer.outputs[i],
                             <<layer.name, layer.outputs[i] \in layer.delayed>>))

\* 155-170: the loop over layer_vector, from its k-th element
RECURSIVE InvertAll(_, _, _)
InvertAll(lv, k, ic) ==
    IF k > Len(lv) THEN ic
    ELSE InvertAll(lv, k + 1, InvertOutputs(lv[k], 1, ic))

\* 181-187 and 204-210: no entry in input_connections makes an input layer
IsInputLayer(layer, ic) == layer.name \notin DOMAIN ic

\* an input dimension that leaves the delayed sources out
InputDimensionFresh(layer, ic, nm) ==
    IF IsInputLayer(layer, ic) THEN layer.size
    ELSE SeqSum([i \in DOMAIN ic[layer.name] |->
                    IF ic[layer.name][i][2] THEN 0 ELSE nm[ic[layer.name][i][1]]])

\* 177-187: the sizes of the sources are summed, and an input layer takes its own
InputDimension(layer, ic, nm) ==
    IF IsInputLayer(layer, ic) THEN layer.size
    ELSE SeqSum([i \in DOMAIN ic[layer.name] |-> nm[ic[layer.name][i][1]]])

\* the activation object handed to a layer: activation_functions is imported by
\* layers.py and is no part of it; an object that keeps two parameters
ActivationFunction == [beta |-> 1, theta |-> 0]

\* layers.py 78-96: StaticLayer.__init__, r standing for np.random.rand
StaticLayer(input_dim, output_dim, r, layer_name) ==
    [kind |-> "STATIC", layer_name |-> layer_name,
     weight_dim |-> <<output_dim, input_dim>>,
     bias_dim |-> <<output_dim>>,
     weight_matrix |-> [i \in 1..output_dim |-> Fill(input_dim, r)],
     bias_vector |-> Fill(output_dim, r),
     activation_function |-> ActivationFunction]

\* 176-196: the kind whose branch creates a layer; CTRNN and RBF have no branch
Instantiated(kind) == kind = "STATIC"

\* 199-219 with layers.py 598-622: the DYNAMIC branch passes (input_dimension, output_dimension,
\* activation_function, time_interval, ones, name) to __init__(input_dim, output_dim,
\* delay_dim, recurrent_dim, activation_function, layer_name); TimeDelay is given
\* the activation object as delay_dim (layers.py 356-360) and the call raises
DynamicLayerRaises(kind) == kind = "DYNAMIC"

\* 174-219: the layer map after the loop over layer_vector
LayerMapOf(lv, ic, nm, r) ==
    [n \in {lv[i].name : i \in {j \in DOMAIN lv : Instantiated(lv[j].kind)}} |->
        LET layer == lv[CHOOSE i \in DOMAIN lv : lv[i].name = n]
        IN  StaticLayer(InputDimension(layer, ic, nm), layer.size, r, n)]

\* 185-186, 208-209: the input layers in declaration order
InputLayersOf(lv, ic) ==
    LET idx == SelectSeq([i \in DOMAIN lv |-> i],
                         LAMBDA i : Instantiated(lv[i].kind) /\ IsInputLayer(lv[i], ic))
    IN  [j \in DOMAIN idx |-> lv[idx[j]].name]

\* a collection that keeps every key of input_connections
OutputLayersOfAll(ic, oc) == ic.keys

\* 222-227: the keys of input_connections that are no key of output_connections
OutputLayersOf(ic, oc) == SelectSeq(ic.keys, LAMBDA t : t \notin DOMAIN oc)

ConstructLayers ==
    /\ pc = "construct_layers"
    /\ \E r \in RandValues, r2 \in TwinRand :
        LET ic == InvertAll(layer_vector, 1, [keys |-> <<>>, map |-> EmptyDict])
            nm == [n \in {layer_vector[i].name : i \in DOMAIN layer_vector} |->
                      layer_vector[CHOOSE i \in DOMAIN layer_vector : layer_vector[i].name = n].size]
            oc == [n \in DOMAIN nm |->
                      layer_vector[CHOOSE i \in DOMAIN layer_vector : layer_vector[i].name = n].outputs]
        IN  IF \E i \in DOMAIN layer_vector : DynamicLayerRaises(layer_vector[i].kind)
            THEN /\ pc' = "raised"
                 /\ build' = [build EXCEPT !.error = "TypeError"]
                 /\ UNCHANGED <<input_connections, output_connections, neuron_map,
                                layer_map, input_layers, output_layers, level_vector,
                                twin>>
            ELSE /\ pc' = "construct_graph"
                 /\ input_connections' = ic.map
                 /\ output_connections' = oc
                 /\ neuron_map' = nm
                 /\ layer_map' = LayerMapOf(layer_vector, ic.map, nm, r)
                 /\ input_layers' = InputLayersOf(layer_vector, ic.map)
                 /\ level_vector' = <<InputLayersOf(layer_vector, ic.map)>>
                 /\ output_layers' = OutputLayersOf(ic, oc)
                 /\ twin' = [NoTwin EXCEPT
                        !.layer_map = LayerMapOf(layer_vector, ic.map, nm, r2),
                        !.state = state]
                 /\ build' = [build EXCEPT
                        !.layers_done = [n \in DOMAIN nm |-> FALSE]]
    /\ UNCHANGED <<beside, layer_vector, state, tick>>

(***************************************************************************)
(* _construct_graph (ann.py 262-379).  A graph node (an entry of ops) is   *)
(* one tf.numpy_function call: the layer it runs, the tensors concatenated *)
(* into its input_vector and the sensor placeholder it was given.  The     *)
(* loops run over a record g of the values they read and write.            *)
(***************************************************************************)
\* 302, 353: a delayed connection reads the state variable of its source
FromState(source) == [from |-> "state", layer |-> source, op |-> 0]
\* a builder that wires a resolved connection to the state variable
FromOutputStale(source, om) == [from |-> "state", layer |-> source, op |-> 0]

\* 306, 357: a connection reads the node output_matrix holds for its source
FromOutput(source, om) == [from |-> "output", layer |-> source, op |-> om[source]]
\* 359: the source has no node yet and its state variable is read instead
FromFallback(source) == [from |-> "fallback", layer |-> source, op |-> 0]

\* a builder that prefers the node of the source whenever one exists
ConnectionTensorFresh(connection, om) ==
    IF connection[1] \in DOMAIN om THEN FromOutput(connection[1], om)
    ELSE FromState(connection[1])

\* 300-306: the tensor one connection contributes when it can be resolved
ConnectionTensor(connection, om) ==
    IF connection[2] = TRUE THEN FromState(connection[1])
    ELSE FromOutput(connection[1], om)

\* 298-309: the loop over the connections of layer, from the i-th; a connection
\* whose source has no node appends layer to new_error_queue and goes on
RECURSIVE ResolveInputs(_, _, _, _, _)
ResolveInputs(layer, connections, i, acc, om) ==
    IF i > Len(connections) THEN acc
    ELSE LET connection == connections[i]
         IN  IF connection[2] = TRUE \/ connection[1] \in DOMAIN om
             THEN ResolveInputs(layer, connections, i + 1,
                     [acc EXCEPT !.tensors = Append(@, ConnectionTensor(connection, om))], om)
             ELSE ResolveInputs(layer, connections, i + 1,
                     [acc EXCEPT !.new = Append(@, layer)], om)

\* 350-359: the same loop in the deadlock branch
ForcedInputs(connections, om) ==
    [i \in DOMAIN connections |->
        IF connections[i][2] = TRUE THEN FromState(connections[i][1])
        ELSE IF connections[i][1] \in DOMAIN om THEN FromOutput(connections[i][1], om)
        ELSE FromFallback(connections[i][1])]

\* 286, 338: a fresh placeholder replaces the layer's entry of sensor_inputs
NewPlaceholder(g, layer) ==
    [g EXCEPT !.placeholders = @ + 1,
              !.sensor_inputs = Put(@, layer, g.placeholders + 1)]

\* 317-318, 363-364: the node of layer is created and counted
Generate(g, layer, is_input, tensors) ==
    IF layer \notin DOMAIN layer_map THEN [g EXCEPT !.error = "KeyError"]
    ELSE LET node == [layer |-> layer, is_input |-> is_input, tensors |-> tensors,
                      placeholder |-> g.sensor_inputs[layer],
                      forward |-> layer_map[layer]]
         IN  [g EXCEPT !.ops = Append(@, node),
                       !.output_matrix = Put(@, layer, Len(g.ops) + 1),
                       !.layers_generated = @ + 1,
                       !.generated_now = @ + 1]

\* 325-328, 371-374: append to the next level, creating it when it is missing
AppendToLevel(lv, level, connection) ==
    IF level + 1 <= Len(lv) THEN [lv EXCEPT ![level + 1] = Append(@, connection)]
    ELSE Append(lv, <<connection>>)

\* 321-330: the outputs of a generated layer enter the next level once
RECURSIVE InsertConnections(_, _, _)
InsertConnections(g, connections, i) ==
    IF i > Len(connections) THEN g
    ELSE LET connection == connections[i]
         IN  IF connection \notin Range(output_layers) /\ g.layers_done[connection] = FALSE
             THEN InsertConnections(
                     [g EXCEPT !.level_vector = AppendToLevel(@, g.current_level + 1, connection),
                               !.layers_done[connection] = TRUE],
                     connections, i + 1)
             ELSE InsertConnections(g, connections, i + 1)

\* 367-374: in the deadlock branch layers_done is neither read nor written
RECURSIVE InsertConnectionsForced(_, _, _)
InsertConnectionsForced(g, connections, i) ==
    IF i > Len(connections) THEN g
    ELSE LET connection == connections[i]
         IN  IF connection \notin Range(output_layers)
             THEN InsertConnectionsForced(
                     [g EXCEPT !.level_vector = AppendToLevel(@, g.current_level + 1, connection)],
                     connections, i + 1)
             ELSE InsertConnectionsForced(g, connections, i + 1)

\* 284-330: one iteration of the loop over error_queue
TryLayer(g, layer) ==
    LET g1 == NewPlaceholder(g, layer)
    IN  IF layer \in Range(input_layers)
        THEN LET g2 == Generate(g1, layer, TRUE, <<>>)
             IN  IF g2.error # "none" THEN g2
                 ELSE InsertConnections(g2, output_connections[layer], 1)
        ELSE LET acc == ResolveInputs(layer, input_connections[layer], 1,
                                      [tensors |-> <<>>, new |-> g1.new], g1.output_matrix)
                 g2 == [g1 EXCEPT !.new = acc.new]
             IN  IF Len(g2.new) # 0 THEN g2
                 ELSE LET g3 == Generate(g2, layer, FALSE, acc.tensors)
                      IN  IF g3.error # "none" THEN g3
                          ELSE InsertConnections(g3, output_connections[layer], 1)

RECURSIVE TryQueue(_, _, _)
TryQueue(g, queue, i) ==
    IF i > Len(queue) \/ g.error # "none" THEN g
    ELSE TryQueue(TryLayer(g, queue[i]), queue, i + 1)

\* 336-374: one iteration of the loop of the deadlock branch
ForceLayer(g, layer) ==
    LET g1 == NewPlaceholder(g, layer)
        is_input == layer \in Range(input_layers)
        tensors == IF is_input THEN <<>> ELSE ForcedInputs(input_connections[layer], g1.output_matrix)
        g2 == Generate(g1, layer, is_input, tensors)
    IN  IF g2.error # "none" THEN g2
        ELSE InsertConnectionsForced(g2, output_connections[layer], 1)

RECURSIVE ForceQueue(_, _, _)
ForceQueue(g, queue, i) ==
    IF i > Len(queue) \/ g.error # "none" THEN g
    ELSE ForceQueue(ForceLayer(g, queue[i]), queue, i + 1)

\* 334: the deadlock test of the pass
Deadlocked(new_error_queue, error_queue) == new_error_queue = error_queue

\* 282-377: one iteration of the loop "while(len(error_queue) != 0)"
PassOver(g0) ==
    LET g1 == TryQueue([g0 EXCEPT !.new = <<>>, !.generated_now = 0, !.forced = FALSE],
                       g0.error_queue, 1)
        g2 == IF g1.error = "none" /\ Deadlocked(g1.new, g0.error_queue)
              THEN ForceQueue([g1 EXCEPT !.new = <<>>, !.forced = TRUE], g0.error_queue, 1)
              ELSE g1
    IN  [g2 EXCEPT !.error_queue = g2.new]

\* the values the loops work on, and build after a pass
Working == 
    [new |-> <<>>, generated_now |-> 0, forced |-> FALSE,
     current_level |-> build.current_level, error_queue |-> build.error_queue,
     layers_generated |-> build.layers_generated, layers_done |-> build.layers_done,
     output_matrix |-> build.output_matrix, sensor_inputs |-> build.sensor_inputs,
     ops |-> build.ops, placeholders |-> build.placeholders,
     level_vector |-> level_vector, error |-> "none"]

\* 272-279: the loop test, the frontier of the level and its ticks in layers_done
BeginLevel ==
    /\ pc = "construct_graph"
    /\ build.layers_generated # NumberOfLayers
    /\ IF build.current_level + 1 > Len(level_vector)
       THEN /\ pc' = "raised"
            /\ build' = [build EXCEPT !.error = "IndexError"]
       ELSE /\ pc' = "level"
            /\ build' = [build EXCEPT
                  !.error_queue = level_vector[build.current_level + 1],
                  !.layers_done = [n \in DOMAIN @ |->
                        IF n \in Range(level_vector[build.current_level + 1]) THEN TRUE ELSE @[n]],
                  !.passes = 0, !.idle_passes = 0, !.last_pass = "none"]
    /\ UNCHANGED <<beside, twin, topology, state, tick>>

Pass ==
    /\ pc = "level"
    /\ Len(build.error_queue) # 0
    /\ Len(build.error_queue) <= MaxQueue
    /\ LET g == PassOver(Working)
       IN  /\ pc' = IF g.error # "none" THEN "raised" ELSE "level"
           /\ level_vector' = g.level_vector
           /\ build' = [build EXCEPT
                 !.error_queue = g.error_queue,
                 !.layers_generated = g.layers_generated,
                 !.layers_done = g.layers_done,
                 !.output_matrix = g.output_matrix,
                 !.sensor_inputs = g.sensor_inputs,
                 !.ops = g.ops,
                 !.placeholders = g.placeholders,
                 !.passes = @ + 1,
                 !.idle_passes = IF g.generated_now = 0 THEN @ + 1 ELSE @,
                 !.last_pass = IF g.forced THEN "forced"
                               ELSE IF g.generated_now = 0 THEN "idle" ELSE "progress",
                 !.error = g.error]
    /\ UNCHANGED <<beside, twin, layer_vector, input_connections, output_connections, neuron_map,
                   layer_map, input_layers, output_layers, state, tick>>

\* 379: the frontier is empty and the next level starts
EndLevel ==
    /\ pc = "level"
    /\ Len(build.error_queue) = 0
    /\ pc' = "construct_graph"
    /\ build' = [build EXCEPT !.current_level = @ + 1]
    /\ UNCHANGED <<beside, twin, topology, state, tick>>

\* 272: every layer is counted as generated and the constructor returns
Constructed ==
    /\ pc = "construct_graph"
    /\ build.layers_generated = NumberOfLayers
    /\ pc' = "ready"
    /\ UNCHANGED <<beside, twin, topology, state, build, tick>>

(***************************************************************************)
(* The layers' forward computation.                                        *)
(***************************************************************************)
\* activation_functions is imported by layers.py and is no part of it: the
\* linear activation with gain 1 and bias 0
CalculateActivation(v) == v

\* np.dot(weight_matrix, input_vector)
Dot(matrix, vector) ==
    [i \in DOMAIN matrix |-> SeqSum([j \in DOMAIN vector |-> matrix[i][j] * vector[j]])]

\* layers.py 131-144: StaticLayer.forward_propagate
StaticForward(layer, input_vector) ==
    IF Len(input_vector) # layer.weight_dim[2]
    THEN [ok |-> FALSE, value |-> <<>>]
    ELSE [ok |-> TRUE,
          value |-> CalculateActivation(
                      [i \in DOMAIN layer.bias_vector |->
                          Dot(layer.weight_matrix, input_vector)[i] + layer.bias_vector[i]])]

\* ann.py 317 hands every layer (input_vector, sensor_input); the two-argument
\* forward_propagate it calls is not in layers.py.  An input layer computes on
\* its sensor vector, any other layer on the concatenated input_vector.
LayerForward(layer, is_input, input_vector, sensor_input) ==
    StaticForward(layer, IF is_input THEN sensor_input ELSE input_vector)

RECURSIVE Concat(_)
Concat(parts) == IF parts = <<>> THEN <<>> ELSE Head(parts) \o Concat(Tail(parts))

(***************************************************************************)
(* forward_propagate (ann.py 409-449).                                     *)
(***************************************************************************)
\* the keys of layer_map in insertion order (426, 429)
LayerMapKeys ==
    LET idx == SelectSeq([i \in DOMAIN layer_vector |-> i],
                         LAMBDA i : layer_vector[i].name \in DOMAIN layer_map)
    IN  [j \in DOMAIN idx |-> layer_vector[idx[j]].name]

\* a lookup keyed by the name of the layer
SensorValueByName(layer, input_dict) ==
    IF layer.name \in DOMAIN input_dict THEN input_dict[layer.name]
    ELSE Zeros(neuron_map[layer.name])

\* 415-418: the value fed to the placeholder of one layer
SensorValue(layer, input_dict) ==
    IF layer.sensor \in DOMAIN input_dict THEN input_dict[layer.sensor]
    ELSE Zeros(neuron_map[layer.name])

\* 413-418: the feed dictionary, keyed by the placeholders sensor_inputs holds
SensorInput(input_dict) ==
    [ph \in {build.sensor_inputs[layer_vector[i].name] : i \in DOMAIN layer_vector} |->
        SensorValue(layer_vector[CHOOSE i \in DOMAIN layer_vector :
                                    build.sensor_inputs[layer_vector[i].name] = ph], input_dict)]

\* 421-427: the variables are initialised to zero and those of the layers of
\* layer_map are assigned the stored state
AssignStateMatrix(st) ==
    [n \in DOMAIN neuron_map |->
        IF n \in DOMAIN layer_map THEN st[n] ELSE Zeros(neuron_map[n])]

\* one session.run fetch of a node: every tensor it depends on is computed in
\* this run; a placeholder that is not fed fails the run.  objects gives, per
\* layer name, the layer object whose forward_propagate the node calls.
RECURSIVE Eval(_, _, _, _)
Eval(id, feed, sm, objects) ==
    LET node == build.ops[id]
        parts == [i \in DOMAIN node.tensors |->
                    IF node.tensors[i].from = "output"
                    THEN Eval(node.tensors[i].op, feed, sm, objects)
                    ELSE [ok |-> TRUE, value |-> sm[node.tensors[i].layer], parts |-> <<>>]]
        values == [i \in DOMAIN parts |-> parts[i].value]
        input_vector == IF node.is_input THEN Zeros(neuron_map[node.layer]) ELSE Concat(values)
    IN  IF node.placeholder \notin DOMAIN feed \/ \E i \in DOMAIN parts : ~parts[i].ok
        THEN [ok |-> FALSE, value |-> <<>>, parts |-> <<>>]
        ELSE LET r == LayerForward(objects[node.layer], node.is_input,
                                   input_vector, feed[node.placeholder])
             IN  [ok |-> r.ok, value |-> r.value, parts |-> values]

\* a graph whose nodes look the layer up in layer_map when they run
EvalNodeLive(id, feed, sm) == Eval(id, feed, sm, layer_map)

\* 317, 363: a node calls the bound method it was created with, the
\* forward_propagate of the object layer_map held when the graph was built
Captured == [n \in DOMAIN build.output_matrix |-> build.ops[build.output_matrix[n]].forward]
EvalNode(id, feed, sm) == Eval(id, feed, sm, Captured)

\* the nodes one fetch runs: the fetched node and the nodes it reads
RECURSIVE Fetched(_)
Fetched(id) ==
    {id} \cup UNION {Fetched(build.ops[id].tensors[i].op) :
                        i \in {j \in DOMAIN build.ops[id].tensors :
                                  build.ops[id].tensors[j].from = "output"}}

\* a tick that leaves the stored state as it was
CommitStateKeep(st, output) == st

\* 432: self.__state = output
CommitState(st, output) == output

\* 436-447: the vector assembled for one hardware layer; a second contributor
\* reaches np.sum(output_vector, output[...]) or the truth value of an array
\* comparison, and both raise into the handler of 444-445
HardwareOutput(connections, output) ==
    IF Len(connections) = 1 /\ connections[1][1] \in DOMAIN output
    THEN [ok |-> TRUE, value |-> output[connections[1][1]]]
    ELSE [ok |-> FALSE, value |-> <<>>]

\* the locals of a new call; committed counts the earlier calls that reached
\* 432 and recorded holds the outputs the last of them computed
StartTick(input_dict) ==
    [NoTick EXCEPT !.count = tick.count, !.input_dict = input_dict,
                   !.committed = tick.committed, !.recorded = tick.recorded]

\* 411-427: the feed dictionary, the session and the state variables; call
\* keeps what the method called before this one gave and is cleared
TickBegin ==
    /\ pc = "ready"
    /\ tick.count < MaxTicks
    /\ \E input_dict \in InputDicts :
        IF \E i \in DOMAIN layer_vector : layer_vector[i].name \notin DOMAIN build.sensor_inputs
        THEN /\ pc' = "ready"
             /\ tick' = [StartTick(input_dict) EXCEPT !.count = @ + 1, !.result = "KeyError"]
        ELSE /\ pc' = "run"
             /\ tick' = [StartTick(input_dict) EXCEPT
                               !.index = 1,
                               !.sensor_input = SensorInput(input_dict),
                               !.state_matrix = AssignStateMatrix(state),
                               !.calls = [n \in DOMAIN layer_map |-> 0],
                               !.result = "running"]
    /\ call' = NoCall
    /\ UNCHANGED <<unit, listener, twin, topology, state, build>>

\* 429-430: one session.run of the loop over layer_map
TickRun ==
    /\ pc = "run"
    /\ tick.index <= Len(LayerMapKeys)
    /\ LET layer == LayerMapKeys[tick.index]
       IN  IF layer \notin DOMAIN build.output_matrix
           THEN /\ pc' = "ready"
                /\ tick' = [tick EXCEPT !.count = @ + 1, !.result = "KeyError"]
           ELSE LET r == EvalNode(build.output_matrix[layer], tick.sensor_input, tick.state_matrix)
                    run == Fetched(build.output_matrix[layer])
                IN  IF ~r.ok
                    THEN /\ pc' = "ready"
                         /\ tick' = [tick EXCEPT !.count = @ + 1, !.result = "InvalidArgumentError"]
                    ELSE /\ pc' = "run"
                         /\ tick' = [tick EXCEPT
                               !.index = @ + 1,
                               !.output = Put(@, layer, r.value),
                               !.inputs = Put(@, layer, r.parts),
                               !.calls = [n \in DOMAIN @ |->
                                   @[n] + Cardinality({id \in run : build.ops[id].layer = n})]]
    /\ UNCHANGED <<beside, twin, topology, state, build>>

\* 409-449 in the second network, which was built from the same layer list and
\* so has the same graph over its own layer objects: one whole call.  same
\* records that both layer maps held equal parameters in every call so far.
TwinTick(tw, input_dict) ==
    LET feed == SensorInput(input_dict)
        sm == AssignStateMatrix(tw.state)
        fetched == [n \in DOMAIN layer_map |->
                       Eval(build.output_matrix[n], feed, sm, tw.layer_map)]
        output == [n \in DOMAIN layer_map |-> fetched[n].value]
        assembled == [h \in Range(output_layers) |->
                         HardwareOutput(input_connections[h], output)]
        held == tw.same /\ tw.layer_map = layer_map
    IN  IF \E n \in DOMAIN fetched : ~fetched[n].ok
        THEN [tw EXCEPT !.result = "InvalidArgumentError", !.same = held]
        ELSE IF \E h \in DOMAIN assembled : ~assembled[h].ok
        THEN [tw EXCEPT !.state = CommitState(tw.state, output), !.result = "Exception",
                        !.output_dict = EmptyDict, !.same = held]
        ELSE [tw EXCEPT !.state = CommitState(tw.state, output), !.result = "returned",
                        !.output_dict = [h \in DOMAIN assembled |-> assembled[h].value],
                        !.same = held]

\* a return that also starts the level vector again from the input layers
TickReturnRelevelling ==
    /\ pc = "run"
    /\ tick.index > Len(LayerMapKeys)
    /\ pc' = "ready"
    /\ state' = CommitState(state, tick.output)
    /\ twin' = TwinTick(twin, tick.input_dict)
    /\ level_vector' = <<input_layers>>
    /\ tick' = [tick EXCEPT !.count = @ + 1, !.result = "Exception",
                            !.committed = @ + 1, !.recorded = tick.output]
    /\ UNCHANGED <<beside, layer_vector, input_connections, output_connections,
                   neuron_map, layer_map, input_layers, output_layers, build>>

\* 432-449: the state is replaced and the hardware outputs are assembled; the
\* second network is given the same input_dict
TickReturn ==
    /\ pc = "run"
    /\ tick.index > Len(LayerMapKeys)
    /\ pc' = "ready"
    /\ state' = CommitState(state, tick.output)
    /\ twin' = TwinTick(twin, tick.input_dict)
    /\ LET assembled == [h \in Range(output_layers) |->
                            HardwareOutput(input_connections[h], tick.output)]
       IN  IF \E h \in DOMAIN assembled : ~assembled[h].ok
           THEN tick' = [tick EXCEPT !.count = @ + 1, !.result = "Exception",
                                     !.committed = @ + 1, !.recorded = tick.output]
           ELSE tick' = [tick EXCEPT !.count = @ + 1, !.result = "returned",
                                     !.committed = @ + 1, !.recorded = tick.output,
                                     !.output_dict = [h \in DOMAIN assembled |-> assembled[h].value]]
    /\ UNCHANGED <<beside, topology, build>>


(***************************************************************************)
(* Properties.                                                             *)
(***************************************************************************)
NameIndex(n) == CHOOSE i \in DOMAIN layer_vector : layer_vector[i].name = n
Spec_(n) == layer_vector[NameIndex(n)]
StaticNetwork == \A i \in DOMAIN layer_vector : layer_vector[i].kind = "STATIC"

\* the declared connections between layers that are not declared delayed
FreshEdges ==
    {e \in Declared \X Declared :
        e[2] \in Range(Spec_(e[1]).outputs) /\ e[2] \notin Spec_(e[1]).delayed}
AllEdges == {e \in Declared \X Declared : e[2] \in Range(Spec_(e[1]).outputs)}

RECURSIVE Closure(_, _)
Closure(S, edges) ==
    LET T == S \cup {e[2] : e \in {f \in edges : f[1] \in S}}
    IN  IF T = S THEN S ELSE Closure(T, edges)

HasFreshCycle == \E n \in Declared : n \in Closure({e[2] : e \in {f \in FreshEdges : f[1] = n}}, FreshEdges)
NoIncoming == {n \in Declared : \A e \in AllEdges : e[2] # n}
AllFed == Closure(NoIncoming, AllEdges) = Declared

\* the call reached line 432: every layer of layer_map was fetched
TickCommitted == pc = "ready" /\ tick.result \in {"returned", "Exception"}
\* the outputs stored when the running call began
Recorded(n) == IF tick.committed = 0 THEN Zeros(neuron_map[n]) ELSE tick.recorded[n]
\* the node the graph holds for layer v and the tensor of its i-th connection
NodeOf(v) == build.ops[build.output_matrix[v]]

C4_CycleNeverRaises ==
    (StaticNetwork /\ HasFreshCycle /\ AllFed) => pc # "raised"

\* C5: in the leveling loop a level has at most one pass that generates no
\* layer: the pass after it force-resolves the frontier
C5_OneExtraPass ==
    StaticNetwork => build.idle_passes <= 1

RECURSIVE VectorSum(_, _)
VectorSum(connections, output) ==
    IF Len(connections) = 1 THEN output[connections[1][1]]
    ELSE LET rest == VectorSum(Tail(connections), output)
         IN  [k \in DOMAIN rest |-> output[connections[1][1]][k] + rest[k]]

EqualSizes(connections) ==
    \A i, j \in DOMAIN connections :
        neuron_map[connections[i][1]] = neuron_map[connections[j][1]]

Fed(n) == tick.sensor_input[build.sensor_inputs[n]]

\* C8, keyed as the specification states it: the vector of an input layer is the entry of the sensor
\* dictionary under the layer's name, and zero when there is none
C8_KeyedByName ==
    pc = "run" =>
        \A n \in Range(input_layers) :
            Fed(n) = IF n \in DOMAIN tick.input_dict THEN tick.input_dict[n]
                     ELSE Zeros(Spec_(n).size)

\* C8, keyed as the code keys it: the vector of an input layer is the entry of the sensor
\* dictionary under the layer's sensor tag (layer[4]), and a zero vector of the
\* declared size when there is none; a call fails before its first fetch only
\* when the graph holds no placeholder for some layer
C8_KeyedBySensorTag ==
    /\ pc = "run" =>
          \A n \in Range(input_layers) :
              Fed(n) = IF Spec_(n).sensor \in DOMAIN tick.input_dict
                       THEN tick.input_dict[Spec_(n).sensor]
                       ELSE Zeros(Spec_(n).size)
    /\ (pc = "ready" /\ tick.result = "KeyError" /\ tick.index = 0) =>
          \E n \in Declared : n \notin DOMAIN build.sensor_inputs

\* a call in which one input layer was fed the entry under its sensor tag and
\* another, whose tag has no entry, was fed zeros
C8_Witness ==
    /\ pc = "run"
    /\ \E n \in Range(input_layers) :
         /\ Spec_(n).sensor \in DOMAIN tick.input_dict
         /\ Fed(n) = tick.input_dict[Spec_(n).sensor]
         /\ Fed(n) # Zeros(Spec_(n).size)
    /\ \E n \in Range(input_layers) :
         /\ Spec_(n).sensor \notin DOMAIN tick.input_dict
         /\ Fed(n) = Zeros(Spec_(n).size)

\* C9: when _construct_layers is over, the layer map has one entry per declared
\* layer, of the declared kind
C9_OneInstancePerSpec ==
    pc # "construct_layers" =>
        /\ DOMAIN layer_map = Declared
        /\ \A n \in Declared : layer_map[n].kind = Spec_(n).kind

\* the names that occur in some layer's outputs
OutputTargets == UNION {Range(layer_vector[i].outputs) : i \in DOMAIN layer_vector}

\* C10: after _construct_layers the hardware layers are exactly the output
\* targets that name no declared layer, each listed once, none of them in the
\* layer map
C10_HardwareLayers ==
    (pc # "construct_layers" /\ build.error # "TypeError") =>
        /\ Range(output_layers) = OutputTargets \ Declared
        /\ Cardinality(Range(output_layers)) = Len(output_layers)
        /\ Range(output_layers) \cap DOMAIN layer_map = {}

\* a network in which a hardware layer is targeted twice besides a connection
\* between declared layers
C10_Witness ==
    /\ pc = "construct_graph"
    /\ output_layers = <<"H1">>
    /\ Len(input_connections["H1"]) = 2
    /\ OutputTargets \cap Declared # {}

(***************************************************************************)
(* layers.py: the layer classes used on their own.  unit is one layer      *)
(* object, call the last method call made on it: its name, its argument,   *)
(* how it ended, what it returned, whether it warned, the object before    *)
(* the call, the number of calls so far and the input vectors the forward  *)
(* calls accepted so far.                                                  *)
(***************************************************************************)
\* method calls followed on one layer object
MaxCalls == 3

\* dimensions a layer is constructed with
Dims == {1, 2}
\* values np.random.rand stands for in a constructor of layers.py
UnitRand == {1}
\* entries of the vectors handed to the methods
UnitValues == {1, 2}
\* input vectors: every length up to one more than the largest dimension
InputVectors == UNION {[1..n -> UnitValues] : n \in 1..3}
\* a vector of len distinct values
Ramp(len, start) == [i \in 1..len |-> start + i - 1]

\* exact fractions <<numerator, denominator>> for the quotients of CTRNNLayer
RECURSIVE Gcd(_, _)
Gcd(a, b) == IF b = 0 THEN a ELSE Gcd(b, a % b)
Abs(a) == IF a < 0 THEN 0 - a ELSE a
Rat(n, d) == LET g == Gcd(Abs(n), Abs(d)) IN <<n \div g, d \div g>>
RatAdd(x, y) == Rat(x[1] * y[2] + y[1] * x[2], x[2] * y[2])
RatSub(x, y) == Rat(x[1] * y[2] - y[1] * x[2], x[2] * y[2])
RatMul(x, y) == Rat(x[1] * y[1], x[2] * y[2])
RatDiv(x, y) == Rat(x[1] * y[2], x[2] * y[1])
FromInt(n) == <<n, 1>>

\* numpy: reshape of a flat vector (row major), flatten, a slice v[a:a+n]
CanReshape(flat, dim) == Len(flat) = dim[1] * dim[2]
Reshape(flat, dim) ==
    [i \in 1..dim[1] |-> [j \in 1..dim[2] |-> flat[(i - 1) * dim[2] + j]]]
Flatten(matrix) == Concat(matrix)
Slice(v, a, n) ==
    SubSeq(v, a + 1, IF a + n < Len(v) THEN a + n ELSE Len(v))

\* layers.py 354-361: TimeDelay.__init__
TimeDelay(input_dim, delay_dim, r) ==
    [kind |-> "DELAY",
     weight_dim |-> <<1, delay_dim>>,
     input_matrix_dim |-> <<delay_dim, input_dim>>,
     weight_vector |-> <<Fill(delay_dim, r)>>,
     input_matrix |-> [k \in 1..delay_dim |-> Zeros(input_dim)]]

\* layers.py 463-471: TimeRecurrence.__init__
TimeRecurrence(input_dim, output_dim, r) ==
    [weight_dim |-> <<output_dim, input_dim>>,
     weight_matrix |-> [i \in 1..output_dim |-> Fill(input_dim, r)],
     input_vector |-> Zeros(input_dim)]

\* layers.py 598-622: DynamicLayer.__init__
DynamicLayer(input_dim, output_dim, delay_dim, recurrent_dim, r, layer_name) ==
    [kind |-> "DYNAMIC", layer_name |-> layer_name,
     weight_dim |-> <<output_dim, input_dim>>,
     bias_dim |-> <<output_dim>>,
     weight_matrix |-> [i \in 1..output_dim |-> Fill(input_dim, r)],
     bias_vector |-> Fill(output_dim, r),
     delay_system |-> TimeDelay(input_dim, delay_dim, r),
     recurrent_system |-> [k \in DOMAIN recurrent_dim |->
                              TimeRecurrence(recurrent_dim[k], output_dim, r)],
     activation_function |-> ActivationFunction]

\* layers.py 1011: float(time_interval) / np.array(time_constant)
TimeWeight(time_interval, time_constant) ==
    [i \in DOMAIN time_constant |-> RatDiv(time_interval, time_constant[i])]

\* layers.py 995-1024: CTRNNLayer.__init__ once the check of 1014 has passed
CTRNNLayer(input_dim, output_dim, time_interval, time_constant, r, layer_name) ==
    [kind |-> "CTRNN", layer_name |-> layer_name,
     weight_dim |-> <<output_dim, input_dim>>,
     bias_dim |-> <<output_dim>>,
     time_dim |-> <<output_dim>>,
     weight_matrix |-> [i \in 1..output_dim |-> Fill(input_dim, r)],
     bias_vector |-> Fill(output_dim, r),
     time_interval |-> time_interval,
     time_constant |-> time_constant,
     time_weight |-> TimeWeight(time_interval, time_constant),
     activation_function |-> ActivationFunction,
     previous_output |-> [i \in 1..output_dim |-> FromInt(0)]]

\* layers.py 1339-1354: RBFLayer.__init__
RBFLayer(input_dim, output_dim, parameter, r, layer_name) ==
    [kind |-> "RBF", layer_name |-> layer_name,
     center_dim |-> <<output_dim, input_dim>>,
     center_matrix |-> [i \in 1..output_dim |-> Fill(input_dim, r)],
     parameter |-> parameter]

(***************************************************************************)
(* The methods of the layer classes.  Each operator gives the outcome of   *)
(* one call: the object after the call, how the call ended, the value it   *)
(* returned (is_none when the method fell off its end) and whether         *)
(* warnings.warn was reached.                                              *)
(***************************************************************************)
Outcome(u, result, value, warned) ==
    [unit |-> u, result |-> result, value |-> value, is_none |-> FALSE, warned |-> warned]
Raised(u, error) == Outcome(u, error, <<>>, FALSE)
ReturnedNone(u, warned) ==
    [unit |-> u, result |-> "ok", value |-> <<>>, is_none |-> TRUE, warned |-> warned]

\* numpy: the shape of a matrix given as its rows
Shape(matrix) == <<Len(matrix), Len(matrix[1])>>

\* layers.py 255-264, 810-818, 1197-1204: set_weight_matrix
SetWeightMatrix(layer, weight_matrix) ==
    IF Shape(weight_matrix) # layer.weight_dim THEN Raised(layer, "ValueError")
    ELSE ReturnedNone([layer EXCEPT !.weight_matrix = weight_matrix], FALSE)

\* layers.py 272-281, 866-874, 1212-1219: set_bias_vector
SetBiasVector(layer, bias_vector) ==
    IF <<Len(bias_vector)>> # layer.bias_dim THEN Raised(layer, "ValueError")
    ELSE ReturnedNone([layer EXCEPT !.bias_vector = bias_vector], FALSE)

\* layers.py 98-144: StaticLayer.forward_propagate
StaticForwardPropagate(layer, input_vector) ==
    LET r == StaticForward(layer, input_vector)
    IN  IF r.ok THEN Outcome(layer, "ok", r.value, FALSE) ELSE Raised(layer, "ValueError")

\* layers.py 172-182: StaticLayer.update_parameters evaluates the name bias_dim,
\* which is neither a local nor a global of the module, before its try block
StaticUpdateParameters(layer, parameter_vector) == Raised(layer, "NameError")

\* get_parameters of the activation object: the pair it was given
GetParameters(activation_function) == <<activation_function.beta, activation_function.theta>>

\* layers.py 234-252: StaticLayer.return_parameters
StaticReturnParameters(layer) ==
    Outcome(layer, "ok",
            Flatten(layer.weight_matrix) \o layer.bias_vector
                \o GetParameters(layer.activation_function), FALSE)

\* a window that takes the new input at its end and drops its first row
TimeDelayForwardAppend(system, input_vector) ==
    IF Len(input_vector) # system.input_matrix_dim[2]
    THEN [ok |-> FALSE, value |-> <<>>, system |-> system]
    ELSE LET matrix == Tail(system.input_matrix \o <<input_vector>>)
         IN  [ok |-> TRUE,
              value |-> [j \in 1..Len(input_vector) |->
                            SeqSum([k \in DOMAIN matrix |->
                                       system.weight_vector[1][k] * matrix[k][j]])],
              system |-> [system EXCEPT !.input_matrix = matrix]]

\* layers.py 384-398: TimeDelay.forward_propagate
TimeDelayForward(system, input_vector) ==
    IF Len(input_vector) # system.input_matrix_dim[2]
    THEN [ok |-> FALSE, value |-> <<>>, system |-> system]
    ELSE LET inserted == <<input_vector>> \o system.input_matrix
             matrix == SubSeq(inserted, 1, Len(inserted) - 1)
         IN  [ok |-> TRUE,
              value |-> [j \in 1..Len(input_vector) |->
                            SeqSum([k \in DOMAIN matrix |->
                                       system.weight_vector[1][k] * matrix[k][j]])],
              system |-> [system EXCEPT !.input_matrix = matrix]]

TimeDelayForwardPropagate(system, input_vector) ==
    LET r == TimeDelayForward(system, input_vector)
    IN  IF r.ok THEN Outcome(r.system, "ok", r.value, FALSE) ELSE Raised(system, "ValueError")

\* layers.py 406-414: TimeDelay.set_weight_vector
SetWeightVector(system, weight_vector) ==
    IF Shape(weight_vector) # system.weight_dim THEN Raised(system, "ValueError")
    ELSE ReturnedNone([system EXCEPT !.weight_vector = weight_vector], FALSE)

\* layers.py 474-478: TimeRecurrence.forward_propagate
TimeRecurrenceForward(recurrence) == Dot(recurrence.weight_matrix, recurrence.input_vector)

\* element-wise np.add
VectorAdd(a, b) == [i \in DOMAIN a |-> a[i] + b[i]]

\* layers.py 665-666: the outputs of the recurrent systems are added one by one
RECURSIVE AddRecurrences(_, _, _)
AddRecurrences(intermediate_output, recurrent_system, k) ==
    IF k > Len(recurrent_system) THEN intermediate_output
    ELSE AddRecurrences(VectorAdd(intermediate_output,
                                  TimeRecurrenceForward(recurrent_system[k])),
                        recurrent_system, k + 1)

\* layers.py 652-671: DynamicLayer.forward_propagate
DynamicForwardPropagate(layer, input_vector) ==
    IF Len(input_vector) # layer.weight_dim[2] THEN Raised(layer, "ValueError")
    ELSE LET delayed == TimeDelayForward(layer.delay_system, input_vector)
             affine == VectorAdd(Dot(layer.weight_matrix, delayed.value), layer.bias_vector)
         IN  Outcome([layer EXCEPT !.delay_system = delayed.system], "ok",
                     CalculateActivation(
                         AddRecurrences(affine, layer.recurrent_system, 1)), FALSE)

\* layers.py 795-807: DynamicLayer.set_recurrent_input
SetRecurrentInput(layer, input_vector, index) ==
    IF index \notin DOMAIN layer.recurrent_system THEN Raised(layer, "IndexError")
    ELSE IF Len(input_vector) # layer.recurrent_system[index].weight_dim[2]
    THEN Raised(layer, "ValueError")
    ELSE ReturnedNone([layer EXCEPT !.recurrent_system[index].input_vector = input_vector],
                      FALSE)

\* layers.py 699-743: DynamicLayer.update_parameters.  Every failure inside the
\* try block of 707-733 is turned into ValueError by 735-736; what was set
\* before the failure stays set.  715 calls get_recurrent_weight_dim without
\* the index it requires (887), so a layer with a recurrent system fails there.
DynamicUpdateParameters(layer, parameter_vector) ==
    LET delay_dim == layer.delay_system.weight_dim
        delay_interval == delay_dim[1] * delay_dim[2]
        delay_part == Slice(parameter_vector, 0, delay_interval)
        layer1 == [layer EXCEPT !.delay_system.weight_vector = Reshape(delay_part, delay_dim)]
        weight_interval == layer.weight_dim[1] * layer.weight_dim[2]
        weight_part == Slice(parameter_vector, delay_interval, weight_interval)
        layer2 == [layer1 EXCEPT !.weight_matrix = Reshape(weight_part, layer.weight_dim)]
        counter2 == delay_interval + weight_interval
        bias_interval == layer.bias_dim[1]
        bias_part == Slice(parameter_vector, counter2, bias_interval)
        layer3 == [layer2 EXCEPT !.bias_vector = bias_part]
        counter3 == counter2 + bias_interval
        layer4 == [layer3 EXCEPT !.activation_function =
                       [beta |-> parameter_vector[counter3 + 1],
                        theta |-> parameter_vector[counter3 + 2]]]
        interval_counter == counter3 + 2
    IN  IF ~CanReshape(delay_part, delay_dim) THEN Raised(layer, "ValueError")
        ELSE IF Len(layer.recurrent_system) > 0 THEN Raised(layer1, "ValueError")
        ELSE IF ~CanReshape(weight_part, layer.weight_dim) THEN Raised(layer1, "ValueError")
        ELSE IF Len(bias_part) # bias_interval THEN Raised(layer2, "ValueError")
        ELSE IF Len(parameter_vector) < counter3 + 2 THEN Raised(layer3, "ValueError")
        ELSE ReturnedNone(layer4, Len(parameter_vector) > interval_counter)

\* layers.py 770-792: DynamicLayer.return_parameters builds the vector and ends
\* without a return statement
DynamicReturnParameters(layer) == ReturnedNone(layer, FALSE)

\* the Euler step of 1070 on one neuron
EulerOutput(previous_output, time_weight, current_activation) ==
    RatAdd(RatMul(previous_output, RatSub(FromInt(1), time_weight)),
           RatMul(FromInt(current_activation), time_weight))

\* an Euler step that clears the previous output when it rejects its input
EulerStepClearing(layer, input_vector) ==
    IF Len(input_vector) # layer.weight_dim[2]
    THEN Raised([layer EXCEPT !.previous_output =
                    [i \in DOMAIN layer.previous_output |-> FromInt(0)]], "ValueError")
    ELSE LET current_activation ==
                 CalculateActivation(VectorAdd(Dot(layer.weight_matrix, input_vector),
                                               layer.bias_vector))
             current_output ==
                 [i \in DOMAIN current_activation |->
                     EulerOutput(layer.previous_output[i], layer.time_weight[i],
                                 current_activation[i])]
         IN  Outcome([layer EXCEPT !.previous_output = current_output], "ok",
                     current_output, FALSE)

\* an Euler step that does not save its output
EulerStepForgetting(layer, input_vector) ==
    IF Len(input_vector) # layer.weight_dim[2] THEN Raised(layer, "ValueError")
    ELSE LET current_activation ==
                 CalculateActivation(VectorAdd(Dot(layer.weight_matrix, input_vector),
                                               layer.bias_vector))
         IN  Outcome(layer, "ok",
                     [i \in DOMAIN current_activation |->
                         EulerOutput(layer.previous_output[i], layer.time_weight[i],
                                     current_activation[i])], FALSE)

\* an Euler step that adds to the previous output without decaying it
EulerStepAccumulating(layer, input_vector) ==
    IF Len(input_vector) # layer.weight_dim[2] THEN Raised(layer, "ValueError")
    ELSE LET current_activation ==
                 CalculateActivation(VectorAdd(Dot(layer.weight_matrix, input_vector),
                                               layer.bias_vector))
             current_output ==
                 [i \in DOMAIN current_activation |->
                     RatAdd(layer.previous_output[i],
                            RatMul(FromInt(current_activation[i]), layer.time_weight[i]))]
         IN  Outcome([layer EXCEPT !.previous_output = current_output], "ok",
                     current_output, FALSE)

\* layers.py 1058-1075: CTRNNLayer.euler_step
EulerStep(layer, input_vector) ==
    IF Len(input_vector) # layer.weight_dim[2] THEN Raised(layer, "ValueError")
    ELSE LET current_activation ==
                 CalculateActivation(VectorAdd(Dot(layer.weight_matrix, input_vector),
                                               layer.bias_vector))
             current_output ==
                 [i \in DOMAIN current_activation |->
                     EulerOutput(layer.previous_output[i], layer.time_weight[i],
                                 current_activation[i])]
         IN  Outcome([layer EXCEPT !.previous_output = current_output], "ok",
                     current_output, FALSE)

\* layers.py 1105-1117: CTRNNLayer.update_parameters evaluates the name bias_dim,
\* which is neither a local nor a global of the module, before its try block
CTRNNUpdateParameters(layer, parameter_vector) == Raised(layer, "NameError")

\* layers.py 1176-1179: CTRNNLayer.return_parameters takes .flatten of the
\* method get_time_constant instead of calling it
CTRNNReturnParameters(layer) == Raised(layer, "AttributeError")

\* layers.py 1247-1258: CTRNNLayer.set_time_constant stores the list, then checks it
SetTimeConstant(layer, time_constant) ==
    IF <<Len(time_constant)>> # layer.time_dim
    THEN Raised([layer EXCEPT !.time_constant = time_constant], "ValueError")
    ELSE ReturnedNone([layer EXCEPT !.time_constant = time_constant,
                                    !.time_weight = TimeWeight(layer.time_interval,
                                                               time_constant)], FALSE)

\* the distance and the basis function handed to RBFLayer are the caller's:
\* the sum of the absolute differences to each center, scaled by the parameter
DistanceFunction(input_vector, center_matrix) ==
    [i \in DOMAIN center_matrix |->
        SeqSum([j \in DOMAIN input_vector |-> Abs(input_vector[j] - center_matrix[i][j])])]
BasisFunction(distance_vector, parameter) ==
    [i \in DOMAIN distance_vector |-> distance_vector[i] * parameter]

\* layers.py 1383-1397: RBFLayer.forward_propagate
RBFForwardPropagate(layer, input_vector) ==
    IF Len(input_vector) # layer.center_dim[2] THEN Raised(layer, "ValueError")
    ELSE Outcome(layer, "ok",
                 BasisFunction(DistanceFunction(input_vector, layer.center_matrix),
                               layer.parameter), FALSE)

\* layers.py 1425-1436: RBFLayer.update_parameters slices with the name interval,
\* which is not defined; the NameError is raised inside the try block
RBFUpdateParameters(layer, parameter_vector) == Raised(layer, "ValueError")

\* layers.py 1463-1467: RBFLayer.return_parameters reads self.rbf_layer, an
\* attribute no RBFLayer has
RBFReturnParameters(layer) == Raised(layer, "AttributeError")

(***************************************************************************)
(* A caller of layers.py: it constructs one layer and calls its methods.   *)
(***************************************************************************)
\* arguments the caller chooses from
TimeIntervals == {Rat(1, 2), Rat(1, 1)}
TimeConstants == UNION {[1..n -> {FromInt(1), FromInt(2)}] : n \in Dims}
RecurrentDims == {<<>>, <<1>>, <<2>>}
WeightMatrices == {[i \in 1..o |-> Fill(n, 3)] : o \in Dims, n \in Dims}
BiasVectors == {Fill(n, 0) : n \in Dims}
WeightVectors == {<<Ramp(d, 2)>> : d \in 1..3}

\* the number of values the layout of update_parameters takes from the vector
Needed(layer) ==
    CASE layer.kind = "STATIC" ->
            layer.weight_dim[1] * layer.weight_dim[2] + layer.bias_dim[1] + 2
      [] layer.kind = "DYNAMIC" ->
            layer.delay_system.weight_dim[1] * layer.delay_system.weight_dim[2]
            + SeqSum([k \in DOMAIN layer.recurrent_system |->
                        layer.recurrent_system[k].weight_dim[1]
                        * layer.recurrent_system[k].weight_dim[2]])
            + layer.weight_dim[1] * layer.weight_dim[2] + layer.bias_dim[1] + 2
      [] layer.kind = "CTRNN" ->
            layer.time_dim[1] + layer.weight_dim[1] * layer.weight_dim[2]
            + layer.bias_dim[1] + 2
      [] layer.kind = "RBF" -> layer.center_dim[1] * layer.center_dim[2]

\* parameter vectors: empty, one value short, as long as needed, three values
\* longer, and the vector the last return_parameters gave
ParameterVectors ==
    {Ramp(len, 3) : len \in {0, Needed(unit) - 1, Needed(unit), Needed(unit) + 3}}
    \cup (IF call.returned.result = "ok" /\ ~call.returned.is_none
          THEN {call.returned.value} ELSE {})

NotReturned == [result |-> "none", value |-> <<>>, is_none |-> FALSE, of |-> NoUnit]

NewCall ==
    [method |-> "none", args |-> <<>>, result |-> "none", value |-> <<>>,
     is_none |-> FALSE, warned |-> FALSE, before |-> NoUnit, count |-> 0,
     inputs |-> <<>>, returned |-> NotReturned]

LayerInit ==
    /\ pc = "layers"
    /\ layer_vector = <<>>
    /\ input_connections = EmptyDict
    /\ output_connections = EmptyDict
    /\ neuron_map = EmptyDict
    /\ layer_map = EmptyDict
    /\ input_layers = <<>>
    /\ output_layers = <<>>
    /\ level_vector = << <<>> >>
    /\ state = EmptyDict
    /\ build = NoBuild
    /\ tick = NoTick
    /\ twin = NoTwin
    /\ unit = NoUnit
    /\ call = NewCall
    /\ listener = NoListener

\* what a caller of layers.py leaves alone
network == <<pc, layer_vector, input_connections, output_connections, neuron_map,
             layer_map, input_layers, output_layers, level_vector, state, build, tick,
             twin>>

\* a constructor call
Constructed_(layer) ==
    /\ unit' = layer
    /\ call' = [NewCall EXCEPT !.method = "__init__", !.result = "ok"]
    /\ UNCHANGED <<network, listener>>

\* a method call with its outcome; forward records the inputs it accepted and
\* return_parameters what it returned for which object
Called(method, args, out) ==
    /\ unit' = out.unit
    /\ call' = [method |-> method, args |-> args, result |-> out.result,
                value |-> out.value, is_none |-> out.is_none, warned |-> out.warned,
                before |-> unit, count |-> call.count + 1,
                inputs |-> IF method = "forward" /\ out.result = "ok"
                           THEN Append(call.inputs, args) ELSE call.inputs,
                returned |-> IF method = "return_parameters"
                             THEN [result |-> out.result, value |-> out.value,
                                   is_none |-> out.is_none, of |-> unit]
                             ELSE call.returned]
    /\ UNCHANGED <<network, listener>>

NoLayerYet == pc = "layers" /\ unit.kind = "none" /\ call.method = "none"
Live(kind) == pc = "layers" /\ unit.kind = kind /\ call.count < MaxCalls

ConstructStaticLayer ==
    /\ NoLayerYet
    /\ \E i \in Dims, o \in Dims, r \in UnitRand : Constructed_(StaticLayer(i, o, r, "unit"))

ConstructTimeDelay ==
    /\ NoLayerYet
    /\ \E i \in Dims, d \in Dims, r \in UnitRand : Constructed_(TimeDelay(i, d, r))

ConstructDynamicLayer ==
    /\ NoLayerYet
    /\ \E i \in Dims, o \in Dims, d \in Dims, rd \in RecurrentDims, r \in UnitRand :
          Constructed_(DynamicLayer(i, o, d, rd, r, "unit"))

\* 1014-1015: a time constant list of another length than output_dim raises
ConstructCTRNNLayer ==
    /\ NoLayerYet
    /\ \E i \in Dims, o \in Dims, ti \in TimeIntervals, tc \in TimeConstants, r \in UnitRand :
          IF Len(tc) # o
          THEN /\ call' = [NewCall EXCEPT !.method = "__init__", !.result = "ValueError"]
               /\ UNCHANGED <<network, listener, unit>>
          ELSE Constructed_(CTRNNLayer(i, o, ti, tc, r, "unit"))

ConstructRBFLayer ==
    /\ NoLayerYet
    /\ \E i \in Dims, o \in Dims, r \in UnitRand : Constructed_(RBFLayer(i, o, 1, r, "unit"))

CallStaticForwardPropagate ==
    /\ Live("STATIC")
    /\ \E x \in InputVectors : Called("forward", x, StaticForwardPropagate(unit, x))

CallStaticUpdateParameters ==
    /\ Live("STATIC")
    /\ \E v \in ParameterVectors :
          Called("update_parameters", v, StaticUpdateParameters(unit, v))

CallStaticReturnParameters ==
    /\ Live("STATIC")
    /\ Called("return_parameters", <<>>, StaticReturnParameters(unit))

CallSetWeightMatrix ==
    /\ \E k \in {"STATIC", "DYNAMIC", "CTRNN"} : Live(k)
    /\ \E m \in WeightMatrices : Called("set_weight_matrix", m, SetWeightMatrix(unit, m))

CallSetBiasVector ==
    /\ \E k \in {"STATIC", "DYNAMIC", "CTRNN"} : Live(k)
    /\ \E b \in BiasVectors : Called("set_bias_vector", b, SetBiasVector(unit, b))

CallTimeDelayForwardPropagate ==
    /\ Live("DELAY")
    /\ \E x \in InputVectors : Called("forward", x, TimeDelayForwardPropagate(unit, x))

CallSetWeightVector ==
    /\ Live("DELAY")
    /\ \E w \in WeightVectors : Called("set_weight_vector", w, SetWeightVector(unit, w))

CallDynamicForwardPropagate ==
    /\ Live("DYNAMIC")
    /\ \E x \in InputVectors : Called("forward", x, DynamicForwardPropagate(unit, x))

CallSetRecurrentInput ==
    /\ Live("DYNAMIC")
    /\ \E n \in Dims :
          Called("set_recurrent_input", Fill(n, 1), SetRecurrentInput(unit, Fill(n, 1), 1))

CallDynamicUpdateParameters ==
    /\ Live("DYNAMIC")
    /\ \E v \in ParameterVectors :
          Called("update_parameters", v, DynamicUpdateParameters(unit, v))

CallDynamicReturnParameters ==
    /\ Live("DYNAMIC")
    /\ Called("return_parameters", <<>>, DynamicReturnParameters(unit))

CallEulerStep ==
    /\ Live("CTRNN")
    /\ \E x \in InputVectors : Called("forward", x, EulerStep(unit, x))

CallSetTimeConstant ==
    /\ Live("CTRNN")
    /\ \E tc \in TimeConstants : Called("set_time_constant", tc, SetTimeConstant(unit, tc))

CallCTRNNUpdateParameters ==
    /\ Live("CTRNN")
    /\ \E v \in ParameterVectors :
          Called("update_parameters", v, CTRNNUpdateParameters(unit, v))

CallCTRNNReturnParameters ==
    /\ Live("CTRNN")
    /\ Called("return_parameters", <<>>, CTRNNReturnParameters(unit))

CallRBFForwardPropagate ==
    /\ Live("RBF")
    /\ \E x \in InputVectors : Called("forward", x, RBFForwardPropagate(unit, x))

CallRBFUpdateParameters ==
    /\ Live("RBF")
    /\ \E v \in ParameterVectors : Called("update_parameters", v, RBFUpdateParameters(unit, v))

CallRBFReturnParameters ==
    /\ Live("RBF")
    /\ Called("return_parameters", <<>>, RBFReturnParameters(unit))

LayerNext ==
    \/ ConstructStaticLayer
    \/ ConstructTimeDelay
    \/ ConstructDynamicLayer
    \/ ConstructCTRNNLayer
    \/ ConstructRBFLayer
    \/ CallStaticForwardPropagate
    \/ CallStaticUpdateParameters
    \/ CallStaticReturnParameters
    \/ CallSetWeightMatrix
    \/ CallSetBiasVector
    \/ CallTimeDelayForwardPropagate
    \/ CallSetWeightVector
    \/ CallDynamicForwardPropagate
    \/ CallSetRecurrentInput
    \/ CallDynamicUpdateParameters
    \/ CallDynamicReturnParameters
    \/ CallEulerStep
    \/ CallSetTimeConstant
    \/ CallCTRNNUpdateParameters
    \/ CallCTRNNReturnParameters
    \/ CallRBFForwardPropagate
    \/ CallRBFUpdateParameters
    \/ CallRBFReturnParameters

LayerSpec == LayerInit /\ [][LayerNext]_vars

(***************************************************************************)
(* The methods of ArtificialNeuralNetwork that read or replace the layer   *)
(* objects (ann.py 452-505), and the network's next-state relation.        *)
(***************************************************************************)
\* 452-460: save_parameters_to_file pickles the layer map; the file read below
\* is the one the second network saved
SavedFile == twin.layer_map

\* 463-470: the layer map is replaced by the unpickled one; the graph built at
\* 317 and 363 is not touched
LoadWeightsFromFile ==
    /\ pc = "ready"
    /\ layer_map' = SavedFile
    /\ call' = [method |-> "load_weights_from_file", result |-> "ok"]
    /\ UNCHANGED <<pc, layer_vector, input_connections, output_connections, neuron_map,
                   input_layers, output_layers, level_vector, state, build, tick,
                   twin, unit, listener>>

\* 500: "layer_" + str(index)
LayerKeys == <<"layer_0", "layer_1", "layer_2">>
LayerKey(index) == LayerKeys[index + 1]

\* 497-505: the dictionary return_parameters_as_vector builds, or the KeyError
\* of the first key that layer_map does not have
ParametersAsVector ==
    LET keys == {LayerKey(index) : index \in 0..(NumberOfLayers - 1)}
        wanted == {k \in keys : k \notin Range(input_layers)}
    IN  IF \E k \in wanted : k \notin DOMAIN layer_map
        THEN [result |-> "KeyError", value |-> EmptyDict]
        ELSE [result |-> "ok",
              value |-> [k \in wanted |-> StaticReturnParameters(layer_map[k]).value]]

\* 473-505: return_parameters_as_vector
ReturnParametersAsVector ==
    /\ pc = "ready"
    /\ call' = [method |-> "return_parameters_as_vector",
                result |-> ParametersAsVector.result,
                value |-> ParametersAsVector.value]
    /\ UNCHANGED <<network, unit, listener>>

Next ==
    \/ LoadWeightsFromFile
    \/ ReturnParametersAsVector
    \/ ConstructLayers
    \/ BeginLevel
    \/ Pass
    \/ EndLevel
    \/ Constructed
    \/ TickBegin
    \/ TickRun
    \/ TickReturn

Spec == Init /\ [][Next]_vars

(***************************************************************************)
(* exercise_1/interfaces/infrared.py: ListenerInfrared keeps the reading   *)
(* of the latest Range message; the subscriber's callbacks and the callers *)
(* of getSensorData are threads that meet at self.lock.                    *)
(***************************************************************************)
\* Number of sensors in the array
ARRAY_LENGTH == 8

\* InfraredData.__init__
InfraredData == [values |-> [i \in 1..ARRAY_LENGTH |-> 0], timeStamp |-> FromInt(0)]

\* the Range messages of the topic: header.frame_id is a string of characters
FrameIds == {<<"i", "r", "_", "1">>, <<"i", "r", "_", "0">>, <<"i", "r", "_", "9">>}
Stamps == {[secs |-> 1, nsecs |-> 500000000]}
Ranges == {5}
Messages ==
    {[header |-> [frame_id |-> f, stamp |-> s], range |-> r] :
        f \in FrameIds, s \in Stamps, r \in Ranges}

Digits == [c \in {"0", "1", "2", "3", "4", "5", "6", "7", "8", "9"} |->
             CASE c = "0" -> 0 [] c = "1" -> 1 [] c = "2" -> 2 [] c = "3" -> 3
               [] c = "4" -> 4 [] c = "5" -> 5 [] c = "6" -> 6 [] c = "7" -> 7
               [] c = "8" -> 8 [] c = "9" -> 9]

\* int(text) of a string of decimal digits
RECURSIVE IntOf(_)
IntOf(text) ==
    IF Len(text) = 1 THEN Digits[text[1]]
    ELSE 10 * IntOf(SubSeq(text, 1, Len(text) - 1)) + Digits[text[Len(text)]]

\* lines 25 to 33 of message2InfraredData on the object infrared: one value and
\* the time stamp are set from the message; raised names the exception that
\* leaves the function instead
Filled(infrared, infra) ==
    LET frame_id == infra.header.frame_id
        text == SubSeq(frame_id, 4, Len(frame_id))
    IN  IF text = <<>> \/ \E i \in DOMAIN text : text[i] \notin DOMAIN Digits
        THEN [raised |-> "ValueError", value |-> infrared]
        ELSE LET index == IntOf(text) - 1
                 at == IF index < 0 THEN index + ARRAY_LENGTH ELSE index
             IN  IF at < 0 \/ at >= ARRAY_LENGTH
                 THEN [raised |-> "IndexError", value |-> infrared]
                 ELSE [raised |-> "none",
                       value |-> [values |-> [infrared.values EXCEPT ![at + 1] = infra.range],
                                  timeStamp |-> Rat(infra.header.stamp.secs * 1000000000
                                                    + infra.header.stamp.nsecs, 1000000000)]]

\* a conversion that fills the reading the listener holds instead of a new one
message2InfraredDataShared(infra) == Filled(listener.data, infra)

\* message2InfraredData: a new InfraredData filled from the message
message2InfraredData(infra) == Filled(InfraredData, infra)

\* the local sensor of a call that has not read yet, and its missing result
NoReading == [values |-> <<>>, timeStamp |-> FromInt(0)]

\* the threads rospy runs the callback on, and the threads that call getSensorData
CallbackThreads == {"c1", "c2"}
Getters == {"g1", "g2"}

\* ListenerInfrared.__init__; latest, completed and seen record the history of
\* the completed callbacks and are read by no action
ListenerInfrared ==
    [data |-> InfraredData,
     sub |-> TRUE,
     lock |-> "free",
     callback |-> [c \in CallbackThreads |-> [at |-> "idle", sensor |-> InfraredData, raised |-> "none"]],
     get |-> [g \in Getters |-> [at |-> "idle", sensor |-> NoReading, returned |-> NoReading, seen |-> {}]],
     latest |-> InfraredData,
     completed |-> FALSE]

ListenerInit ==
    /\ pc = "listener"
    /\ layer_vector = <<>>
    /\ input_connections = EmptyDict
    /\ output_connections = EmptyDict
    /\ neuron_map = EmptyDict
    /\ layer_map = EmptyDict
    /\ input_layers = <<>>
    /\ output_layers = <<>>
    /\ level_vector = << <<>> >>
    /\ state = EmptyDict
    /\ build = NoBuild
    /\ tick = NoTick
    /\ twin = NoTwin
    /\ unit = NoUnit
    /\ call = NoCall
    /\ listener = ListenerInfrared

\* ListenerInfrared.stop
Stop ==
    /\ pc = "listener"
    /\ listener' = [listener EXCEPT !.sub = FALSE]
    /\ UNCHANGED <<network, unit, call>>

\* ListenerInfrared.start
Start ==
    /\ pc = "listener"
    /\ listener' = [listener EXCEPT !.sub = TRUE]
    /\ UNCHANGED <<network, unit, call>>

\* __callback, line 49: sensor = message2InfraredData(message)
Callback(c) ==
    /\ pc = "listener"
    /\ listener.sub
    /\ listener.callback[c].at = "idle"
    /\ \E message \in Messages :
          LET sensor == message2InfraredData(message)
          IN  listener' = [listener EXCEPT !.callback[c] =
                  IF sensor.raised # "none"
                  THEN [at |-> "idle", sensor |-> InfraredData, raised |-> sensor.raised]
                  ELSE [at |-> "acquire", sensor |-> sensor.value, raised |-> "none"]]
    /\ UNCHANGED <<network, unit, call>>

\* __callback, line 51: self.lock.acquire()
CallbackAcquire(c) ==
    /\ pc = "listener"
    /\ listener.callback[c].at = "acquire"
    /\ listener.lock = "free"
    /\ listener' = [listener EXCEPT !.lock = c, !.callback[c].at = "assign"]
    /\ UNCHANGED <<network, unit, call>>

\* __callback, line 52: self.data = sensor
CallbackAssign(c) ==
    /\ pc = "listener"
    /\ listener.callback[c].at = "assign"
    /\ listener' = [listener EXCEPT !.data = listener.callback[c].sensor,
                                    !.callback[c].at = "release"]
    /\ UNCHANGED <<network, unit, call>>

\* __callback, line 53: self.lock.release(), and the callback is complete
CallbackRelease(c) ==
    /\ pc = "listener"
    /\ listener.callback[c].at = "release"
    /\ listener' = [listener EXCEPT
          !.lock = "free",
          !.callback[c] = [at |-> "idle", sensor |-> InfraredData, raised |-> "none"],
          !.latest = listener.callback[c].sensor,
          !.completed = TRUE,
          !.get = [g \in Getters |->
                     IF listener.get[g].at \in {"acquire", "read", "release", "return"}
                     THEN [listener.get[g] EXCEPT
                             !.seen = @ \cup {listener.callback[c].sensor}]
                     ELSE listener.get[g]]]
    /\ UNCHANGED <<network, unit, call>>

\* a thread calls getSensorData
GetSensorData(g) ==
    /\ pc = "listener"
    /\ listener.get[g].at = "idle"
    /\ listener' = [listener EXCEPT !.get[g] =
          [at |-> "acquire", sensor |-> NoReading, returned |-> NoReading,
           seen |-> {listener.latest}]]
    /\ UNCHANGED <<network, unit, call>>

\* getSensorData, line 65: self.lock.acquire()
GetAcquire(g) ==
    /\ pc = "listener"
    /\ listener.get[g].at = "acquire"
    /\ listener.lock = "free"
    /\ listener' = [listener EXCEPT !.lock = g, !.get[g].at = "read"]
    /\ UNCHANGED <<network, unit, call>>

\* getSensorData, line 66: sensor = self.data
GetRead(g) ==
    /\ pc = "listener"
    /\ listener.get[g].at = "read"
    /\ listener' = [listener EXCEPT !.get[g].sensor = listener.data,
                                    !.get[g].at = "release"]
    /\ UNCHANGED <<network, unit, call>>

\* getSensorData, line 67: self.lock.release()
GetRelease(g) ==
    /\ pc = "listener"
    /\ listener.get[g].at = "release"
    /\ listener' = [listener EXCEPT !.lock = "free", !.get[g].at = "return"]
    /\ UNCHANGED <<network, unit, call>>

\* getSensorData, line 69: return sensor
GetReturn(g) ==
    /\ pc = "listener"
    /\ listener.get[g].at = "return"
    /\ listener' = [listener EXCEPT !.get[g] =
          [at |-> "idle", sensor |-> NoReading, returned |-> listener.get[g].sensor,
           seen |-> {}]]
    /\ UNCHANGED <<network, unit, call>>

ListenerNext ==
    \/ Stop
    \/ Start
    \/ \E c \in CallbackThreads : Callback(c)
    \/ \E c \in CallbackThreads : CallbackAcquire(c)
    \/ \E c \in CallbackThreads : CallbackAssign(c)
    \/ \E c \in CallbackThreads : CallbackRelease(c)
    \/ \E g \in Getters : GetSensorData(g)
    \/ \E g \in Getters : GetAcquire(g)
    \/ \E g \in Getters : GetRead(g)
    \/ \E g \in Getters : GetRelease(g)
    \/ \E g \in Getters : GetReturn(g)

\* a thread that is running runs on: the interpreter switches between the
\* threads, and a thread waiting at acquire() gets the lock among the releases
Scheduling ==
    /\ \A c \in CallbackThreads :
          /\ SF_vars(CallbackAcquire(c))
          /\ WF_vars(CallbackAssign(c))
          /\ WF_vars(CallbackRelease(c))
    /\ \A g \in Getters :
          /\ SF_vars(GetAcquire(g))
          /\ WF_vars(GetRead(g))
          /\ WF_vars(GetRelease(g))
          /\ WF_vars(GetReturn(g))

ListenerSpec == ListenerInit /\ [][ListenerNext]_vars /\ Scheduling

(***************************************************************************)
(* Properties of the layer classes.                                        *)
(***************************************************************************)
\* the parameters of a layer in the fixed order of its variant: delay weights,
\* recurrent weights, time constants, weights or centers, bias, activation
ParametersOf(layer) ==
    CASE layer.kind = "STATIC" ->
            Flatten(layer.weight_matrix) \o layer.bias_vector
            \o GetParameters(layer.activation_function)
      [] layer.kind = "DYNAMIC" ->
            Flatten(layer.delay_system.weight_vector)
            \o Concat([k \in DOMAIN layer.recurrent_system |->
                          Flatten(layer.recurrent_system[k].weight_matrix)])
            \o Flatten(layer.weight_matrix) \o layer.bias_vector
            \o GetParameters(layer.activation_function)
      [] layer.kind = "CTRNN" ->
            layer.time_constant \o [i \in 1..Len(Flatten(layer.weight_matrix)) |->
                                       FromInt(Flatten(layer.weight_matrix)[i])]
            \o [i \in DOMAIN layer.bias_vector |-> FromInt(layer.bias_vector[i])]
            \o <<FromInt(layer.activation_function.beta),
                 FromInt(layer.activation_function.theta)>>
      [] layer.kind = "RBF" -> Flatten(layer.center_matrix)

Variants == {"STATIC", "DYNAMIC", "CTRNN", "RBF"}

\* C11: update_parameters of any layer variant, given a vector three values
\* longer than the layer needs, ends without raising, has warned, and the
\* layer's parameters are the first Needed values of the vector.
C11_OverlongAccepted ==
    (/\ pc = "layers"
     /\ call.method = "update_parameters"
     /\ call.before.kind \in Variants
     /\ Len(call.args) = Needed(call.before) + 3)
    => /\ call.result = "ok"
       /\ call.warned
       /\ ParametersOf(unit) = SubSeq(call.args, 1, Needed(call.before))

\* C12: return_parameters of any layer variant returns the layer's parameters
\* in the order of its variant, and update_parameters given the vector that a
\* layer of the same shape returned ends with that layer's parameters.
C12_RoundTrip ==
    /\ (pc = "layers" /\ call.method = "return_parameters" /\ unit.kind \in Variants)
       => /\ call.result = "ok"
          /\ ~call.is_none
          /\ call.value = ParametersOf(unit)
    /\ (/\ pc = "layers"
        /\ call.method = "update_parameters"
        /\ call.returned.result = "ok"
        /\ ~call.returned.is_none
        /\ call.args = call.returned.value)
       => /\ call.result = "ok"
          /\ ParametersOf(unit) = ParametersOf(call.returned.of)

\* the input size a layer was constructed with
InputSize(layer) ==
    CASE layer.kind \in {"STATIC", "DYNAMIC", "CTRNN"} -> layer.weight_dim[2]
      [] layer.kind = "DELAY" -> layer.input_matrix_dim[2]
      [] layer.kind = "RBF" -> layer.center_dim[2]

\* C15: a forward call of StaticLayer, TimeDelay, DynamicLayer, CTRNNLayer or
\* RBFLayer with a vector of another length than the input size raises
\* ValueError and leaves the object, its delay window and its previous Euler
\* output included, as it was before the call.
C15_WrongLengthRejected ==
    (/\ pc = "layers"
     /\ call.method = "forward"
     /\ Len(call.args) # InputSize(call.before))
    => /\ call.result = "ValueError"
       /\ unit = call.before

\* a layer whose internal state is not the initial one rejected an input
C15_Witness ==
    /\ pc = "layers"
    /\ call.method = "forward"
    /\ Len(call.args) # InputSize(call.before)
    /\ call.result = "ValueError"
    /\ \/ /\ unit.kind = "CTRNN"
          /\ \E i \in DOMAIN unit.previous_output : unit.previous_output[i] # FromInt(0)
       \/ /\ unit.kind = "DYNAMIC"
          /\ unit.delay_system.input_matrix[1] # Zeros(InputSize(unit))

ScenarioLayer(layer) ==
    /\ layer.kind = "CTRNN"
    /\ layer.time_weight = <<Rat(1, 2)>>
    /\ layer.weight_matrix = << <<1>> >>
    /\ layer.bias_vector = <<0>>

\* C16: euler_step returns previous_output * (1 - time_weight) + activation *
\* time_weight per neuron and keeps it as previous_output; previous_output is
\* zero until the first step; with time_weight 1/2, W = [[1]], b = [0] the
\* first step on [2] returns 1 and a second step on [2] returns 3/2.
C16_EulerStep ==
    (pc = "layers" /\ unit.kind = "CTRNN") =>
        /\ (call.inputs = <<>>) =>
              unit.previous_output = [i \in DOMAIN unit.previous_output |-> FromInt(0)]
        /\ (call.method = "forward" /\ call.result = "ok") =>
              /\ call.value =
                    [i \in DOMAIN call.before.bias_vector |->
                        EulerOutput(call.before.previous_output[i],
                                    call.before.time_weight[i],
                                    CalculateActivation(
                                        VectorAdd(Dot(call.before.weight_matrix, call.args),
                                                  call.before.bias_vector))[i])]
              /\ unit.previous_output = call.value
              /\ (ScenarioLayer(call.before) /\ call.inputs = << <<2>> >>)
                    => call.value = <<Rat(1, 1)>>
              /\ (/\ ScenarioLayer(call.before)
                  /\ call.inputs = << <<2>>, <<2>> >>
                  /\ call.before.previous_output = <<Rat(1, 1)>>)
                    => call.value = <<Rat(3, 2)>>

\* the second step of the scenario has returned 3/2
C16_Witness ==
    /\ pc = "layers"
    /\ ScenarioLayer(call.before)
    /\ call.method = "forward"
    /\ call.inputs = << <<2>>, <<2>> >>
    /\ call.before.previous_output = <<Rat(1, 1)>>
    /\ call.value = <<Rat(3, 2)>>
    /\ unit.previous_output = <<Rat(3, 2)>>

\* C17: a step of a CTRNNLayer whose time_weight entries are all 1 returns what
\* StaticLayer.forward_propagate returns for the same weights, bias and input,
\* whatever the earlier steps left in previous_output.
C17_UnitTimeWeightIsStatic ==
    (/\ pc = "layers"
     /\ unit.kind = "CTRNN"
     /\ call.method = "forward"
     /\ call.result = "ok"
     /\ \A i \in DOMAIN call.before.time_weight : call.before.time_weight[i] = FromInt(1))
    => LET static == StaticForward(call.before, call.args)
       IN  /\ static.ok
           /\ call.value = [i \in DOMAIN static.value |-> FromInt(static.value[i])]

\* a step with time_weight 1 taken when previous_output was not zero and
\* differed from what the step returned
C17_Witness ==
    /\ pc = "layers"
    /\ unit.kind = "CTRNN"
    /\ call.method = "forward"
    /\ call.result = "ok"
    /\ \A i \in DOMAIN call.before.time_weight : call.before.time_weight[i] = FromInt(1)
    /\ \E i \in DOMAIN call.value :
          /\ call.before.previous_output[i] # FromInt(0)
          /\ call.before.previous_output[i] # call.value[i]

\* C18: the window of a TimeDelay has delay_dim rows; its k-th row is the k-th
\* most recent accepted input, or zero when fewer than k were given; a call
\* returns, per input channel, the sum of the rows weighted by the weight
\* vector; with delay_dim 1 that is the current input times the one weight.
C18_DelayWindow ==
    (pc = "layers" /\ unit.kind = "DELAY") =>
        /\ Len(unit.input_matrix) = unit.input_matrix_dim[1]
        /\ \A k \in DOMAIN unit.input_matrix :
              unit.input_matrix[k] =
                  IF k <= Len(call.inputs) THEN call.inputs[Len(call.inputs) - k + 1]
                  ELSE Zeros(unit.input_matrix_dim[2])
        /\ (call.method = "forward" /\ call.result = "ok") =>
              /\ call.value =
                    [j \in DOMAIN call.args |->
                        SeqSum([k \in DOMAIN unit.input_matrix |->
                                   call.before.weight_vector[1][k] * unit.input_matrix[k][j]])]
              /\ unit.input_matrix_dim[1] = 1 =>
                    call.value = [j \in DOMAIN call.args |->
                                     call.before.weight_vector[1][1] * call.args[j]]

\* a window of two rows that has taken three inputs, the last two different
C18_Witness ==
    /\ pc = "layers"
    /\ unit.kind = "DELAY"
    /\ unit.input_matrix_dim[1] = 2
    /\ Len(call.inputs) = 3
    /\ call.inputs[2] # call.inputs[3]
    /\ unit.input_matrix = <<call.inputs[3], call.inputs[2]>>

C14_ParametersByName ==
    (pc = "ready" /\ call.method = "return_parameters_as_vector") =>
        /\ call.result = "ok"
        /\ DOMAIN call.value = {n \in DOMAIN neuron_map : n \notin Range(input_layers)}
        /\ \A n \in DOMAIN call.value : call.value[n] = ParametersOf(layer_map[n])

WholeReadings ==
    {InfraredData} \cup
    {message2InfraredData(m).value : m \in {x \in Messages : message2InfraredData(x).raised = "none"}}

LevelsOf(n) == {k \in 0..(Len(level_vector) - 1) : n \in Range(level_vector[k + 1])}
Occurrences(n) ==
    SeqSum([k \in DOMAIN level_vector |->
               Cardinality({j \in DOMAIN level_vector[k] : level_vector[k][j] = n})])
EachLeveledOnce == \A n \in Declared : Occurrences(n) = 1

\* C21: when the constructor has returned, every declared layer occurs exactly
\* once in the level vector, cyclic networks included
C21_OneLevelPerLayer ==
    pc = "ready" => EachLeveledOnce

\* C22: when the constructor has returned with every layer in one level, every
\* connection (u, v) that is neither declared delayed nor wired to the stored
\* state by the deadlock branch has u in a smaller level than v
C22_TopologicalOrder ==
    (pc = "ready" /\ EachLeveledOnce) =>
        \A v \in Declared :
            v \in DOMAIN input_connections =>
                \A i \in DOMAIN input_connections[v] :
                    LET u == input_connections[v][i][1]
                    IN  (~input_connections[v][i][2] /\ NodeOf(v).tensors[i].from # "fallback") =>
                            \A lu \in LevelsOf(u), lv \in LevelsOf(v) : lu < lv

\* some declared layer reaches itself over declared connections of any sort
HasCycle == \E n \in Declared : n \in Closure({e[2] : e \in {f \in AllEdges : f[1] = n}}, AllEdges)

\* C23: a network of StaticLayers whose connections, delayed or not, form no
\* cycle (so that those not declared delayed form none) is constructed without
\* a pass of the deadlock branch and without raising, and every connection not
\* declared delayed is wired to the node of its source
C23_StaleOnlyOnCycles ==
    (StaticNetwork /\ ~HasCycle) =>
        /\ pc # "raised"
        /\ build.last_pass # "forced"
        /\ \A id \in DOMAIN build.ops : \A i \in DOMAIN build.ops[id].tensors :
              build.ops[id].tensors[i].from # "fallback"
        /\ pc = "ready" =>
              \A v \in Declared :
                  v \in DOMAIN input_connections =>
                      \A i \in DOMAIN input_connections[v] :
                          ~input_connections[v][i][2] => NodeOf(v).tensors[i].from = "output"

\* C24: when _construct_layers has returned, level 0 holds exactly the declared
\* layers without an incoming connection, whatever their kind, and the layer
\* object of each takes an input of the declared size
C24_InputLayersAtLevelZero ==
    (pc # "construct_layers" /\ build.error # "TypeError") =>
        /\ Range(level_vector[1]) = NoIncoming
        /\ \A n \in NoIncoming :
              /\ n \in DOMAIN layer_map
              /\ layer_map[n].weight_dim[2] = Spec_(n).size

\* the pairs a layer spec contributes to the list of target t: one per
\* occurrence of t in its outputs
PairsOf(layer, t) ==
    [j \in 1..Cardinality({i \in DOMAIN layer.outputs : layer.outputs[i] = t}) |->
        <<layer.name, t \in layer.delayed>>]

\* C25: when _construct_layers has returned, input_connections has one list per
\* name that occurs in some outputs, and the list of t holds, in declaration
\* order of the sources, one pair (s, d) per occurrence of t in the outputs of
\* s, d being true exactly when s lists t among its delayed outputs
C25_InvertedOutputs ==
    (pc # "construct_layers" /\ build.error # "TypeError") =>
        /\ DOMAIN input_connections = OutputTargets
        /\ \A t \in OutputTargets :
              input_connections[t] =
                  Concat([k \in DOMAIN layer_vector |-> PairsOf(layer_vector[k], t)])

\* a target listed twice by one layer and once, delayed, by a later one
C25_Witness ==
    /\ pc = "construct_graph"
    /\ "L3" \in DOMAIN input_connections
    /\ input_connections["L3"] = << <<"L1", FALSE>>, <<"L1", FALSE>>, <<"L2", TRUE>> >>

\* the sum of the declared sizes of the sources of v, one term per connection
UpstreamSize(v) ==
    SeqSum([k \in DOMAIN layer_vector |->
               layer_vector[k].size * Len(PairsOf(layer_vector[k], v))])

Parameters(layer) ==
    IF layer.kind = "DELAY" THEN Flatten(layer.weight_vector) ELSE ParametersOf(layer)

C28_ShortUpdateAtomic ==
    (/\ pc = "layers"
     /\ call.method = "update_parameters"
     /\ call.before.kind \in Variants
     /\ Len(call.args) < Needed(call.before))
    => /\ call.result = "ValueError"
       /\ ParametersOf(unit) = ParametersOf(call.before)

\* C29: a CTRNNLayer holds, after its construction and after every call of
\* set_time_constant, accepted or rejected, one time constant per output
\* neuron, and each time weight is the time interval divided by the time
\* constant of its neuron
C29_TimeWeightInvariant ==
    (pc = "layers" /\ unit.kind = "CTRNN") =>
        /\ Len(unit.time_constant) = unit.weight_dim[1]
        /\ Len(unit.time_weight) = unit.weight_dim[1]
        /\ \A i \in 1..unit.weight_dim[1] :
              i \in DOMAIN unit.time_constant =>
                  RatMul(unit.time_weight[i], unit.time_constant[i]) = unit.time_interval

====
